---------------------------- MODULE Spec2Model ----------------------------
(***************************************************************************)
(* CodeScope: the filter / concurrent-read / write pipeline                *)
(* (aggregator.py, file_scanner.py, checksums.py) and the line-oriented    *)
(* structural parser (js_parser.py).                                       *)
(*                                                                         *)
(* The specifications of the module:                                       *)
(*   Spec          one run of the pipeline on one tree                     *)
(*   RepeatSpec    up to MaxRuns runs, files edited in between             *)
(*   CompressSpec  up to MaxRuns runs, compression switched in between     *)
(*   FilterSpec    should_ignore_file applied to one arbitrary candidate   *)
(*   WalkSpec      collect_file_candidates walking one arbitrary tree      *)
(*   ParserSpec    parse_js_ts_file scanning one arbitrary file            *)
(* Each leaves the variables it does not use at their idle values.         *)
(***************************************************************************)
EXTENDS Integers, Sequences, FiniteSets, TLC

(***************************************************************************)
(* Bounds of the model.                                                    *)
(***************************************************************************)
NumFiles == 2        \* regular source files in the scanned tree
NumContents == 2     \* distinct contents a regular file can have
MaxThreads == 2      \* largest configured worker count
MaxRuns == 2         \* pipeline runs in a row
NumDirs == 2         \* directories below the root of a walked tree
NumTreeFiles == 4    \* files below the root of the summary pass
MaxMerges == 2       \* calls of merge_configs in one process

(***************************************************************************)
(* Paths, contents and hashes.                                             *)
(***************************************************************************)
\* config['checksum_cache']: the path of the cache file. It is a candidate
\* of the walk when it lies under the scanned root ('.json' is an allowed
\* extension and the default root is the working directory).
CachePath == 0
RegularPaths == 1..NumFiles
\* A file that was in the tree when an earlier run saved the cache and is
\* no longer there: it is never a candidate.
GonePath == NumFiles + 1
AllPaths == {CachePath} \cup RegularPaths \cup {GonePath}

\* dict.get() of a path with no entry.
None == 0
Contents == 1..NumContents

\* compute_md5: the digest identifies the bytes (collisions are not
\* modelled). The digest of content c is c itself.
compute_md5(content) == content

\* The bytes of the cache file are identified by the number of times a save
\* changed them; they never equal the bytes of a regular file.
CacheContent(ver) == NumContents + 1 + ver

EmptyCache == [p \in AllPaths |-> None]

\* json.load returns any JSON value; load_checksum_cache returns it as it is.
\* A value that is not a dict (a list, a string, a number, null) has no
\* entries: every look-up into it is marked NonDict.
NonDict == -1
NonDictValue == [p \in AllPaths |-> NonDict]

(***************************************************************************)
(* The text of the artifact: a sequence of strings, each a path, a file    *)
(* content or a newline.                                                   *)
(***************************************************************************)
Str(kind, value) == [t |-> kind, v |-> value]
Newline == Str("newline", 0)

\* Variant: the content is written without the newline after it.
write_record_no_final_newline(rec) ==
    <<Str("path", rec[1]), Newline, Str("content", rec[2])>>

\* outfile.write(fp + '\n'); outfile.write(content + '\n')
write_record(rec) ==
    <<Str("path", rec[1]), Newline, Str("content", rec[2]), Newline>>

RECURSIVE write_records(_)
\* for (fp, content) in results: ...
write_records(recs) ==
    IF recs = <<>> THEN <<>>
    ELSE write_record(Head(recs)) \o write_records(Tail(recs))

\* gzip.open(path, 'wt'): the file holds a gzip member whose payload is the
\* text written; reading it back with gzip yields the payload.
GzipHeader == Str("gzip", 0)
gzip_write(text) == <<GzipHeader>> \o text
gzip_read(bytes) == IF bytes = <<>> THEN <<>> ELSE Tail(bytes)

(***************************************************************************)
(* should_ignore_file. A candidate is described by what the rules read     *)
(* from it: f.ext_ignored (path ends with an ignore-extension), f.size_err *)
(* and f.mtime_err (os.path.getsize / getmtime raise), f.too_big,          *)
(* f.too_old, f.pattern (an ignore-pattern matches the path),              *)
(* f.open_err (the file cannot be opened for hashing), f.content.          *)
(* The result records the returned value ("True", "False", "raise" when an *)
(* OSError leaves the function, "AttributeError" when the cache loaded is  *)
(* not a dict and .get is called on it) and the rules evaluated, in order. *)
(***************************************************************************)
\* Variant: a look-up that finds no entry counts as "unchanged".
ChecksumRule_no_entry_is_unchanged(f, path, cache) ==
    IF f.open_err
    THEN [ret |-> "raise", evals |-> <<"ext", "size", "mtime", "pattern", "checksum">>]
    ELSE IF cache[path] = NonDict
    THEN [ret |-> "AttributeError",
          evals |-> <<"ext", "size", "mtime", "pattern", "checksum">>]
    ELSE LET new_md5 == compute_md5(f.content)
             old_md5 == cache[path]
         IN  [ret |-> IF old_md5 = None \/ old_md5 = new_md5 THEN "True" ELSE "False",
              evals |-> <<"ext", "size", "mtime", "pattern", "checksum">>]

ChecksumRule(f, path, cache) ==
    IF f.open_err
    THEN [ret |-> "raise", evals |-> <<"ext", "size", "mtime", "pattern", "checksum">>]
    ELSE IF cache[path] = NonDict
    THEN [ret |-> "AttributeError",
          evals |-> <<"ext", "size", "mtime", "pattern", "checksum">>]
    ELSE LET new_md5 == compute_md5(f.content)
             old_md5 == cache[path]
         IN  [ret |-> IF old_md5 # None /\ old_md5 = new_md5 THEN "True" ELSE "False",
              evals |-> <<"ext", "size", "mtime", "pattern", "checksum">>]

\* Variant: the size is read before the extension is looked at.
should_ignore_file_size_first(f, path, use_checksum_cache, cache) ==
    IF f.size_err THEN [ret |-> "raise", evals |-> <<"size">>]
    ELSE IF f.too_big THEN [ret |-> "True", evals |-> <<"size">>]
    ELSE IF f.ext_ignored THEN [ret |-> "True", evals |-> <<"size", "ext">>]
    ELSE IF f.mtime_err THEN [ret |-> "raise", evals |-> <<"size", "ext", "mtime">>]
    ELSE IF f.too_old THEN [ret |-> "True", evals |-> <<"size", "ext", "mtime">>]
    ELSE IF f.pattern THEN [ret |-> "True", evals |-> <<"size", "ext", "mtime", "pattern">>]
    ELSE IF use_checksum_cache
    THEN [ChecksumRule(f, path, cache) EXCEPT
             !.evals = <<"size", "ext", "mtime", "pattern", "checksum">>]
    ELSE [ret |-> "False", evals |-> <<"size", "ext", "mtime", "pattern">>]

\* Variant: the pattern rule does not end the evaluation, so the hash is
\* computed for a file an ignore-pattern matches.
should_ignore_file_no_short_circuit(f, path, use_checksum_cache, cache) ==
    IF f.ext_ignored THEN [ret |-> "True", evals |-> <<"ext">>]
    ELSE IF f.size_err THEN [ret |-> "raise", evals |-> <<"ext", "size">>]
    ELSE IF f.too_big THEN [ret |-> "True", evals |-> <<"ext", "size">>]
    ELSE IF f.mtime_err THEN [ret |-> "raise", evals |-> <<"ext", "size", "mtime">>]
    ELSE IF f.too_old THEN [ret |-> "True", evals |-> <<"ext", "size", "mtime">>]
    ELSE IF use_checksum_cache
    THEN LET r == ChecksumRule(f, path, cache)
         IN  IF f.pattern /\ r.ret = "False" THEN [r EXCEPT !.ret = "True"] ELSE r
    ELSE [ret |-> IF f.pattern THEN "True" ELSE "False",
          evals |-> <<"ext", "size", "mtime", "pattern">>]

\* Variant: the size is read but never compared with max_file_size.
should_ignore_file_no_size_limit(f, path, use_checksum_cache, cache) ==
    IF f.ext_ignored THEN [ret |-> "True", evals |-> <<"ext">>]
    ELSE IF f.size_err THEN [ret |-> "raise", evals |-> <<"ext", "size">>]
    ELSE IF f.mtime_err THEN [ret |-> "raise", evals |-> <<"ext", "size", "mtime">>]
    ELSE IF f.too_old THEN [ret |-> "True", evals |-> <<"ext", "size", "mtime">>]
    ELSE IF f.pattern THEN [ret |-> "True", evals |-> <<"ext", "size", "mtime", "pattern">>]
    ELSE IF use_checksum_cache THEN ChecksumRule(f, path, cache)
    ELSE [ret |-> "False", evals |-> <<"ext", "size", "mtime", "pattern">>]

should_ignore_file(f, path, use_checksum_cache, cache) ==
    IF f.ext_ignored THEN [ret |-> "True", evals |-> <<"ext">>]
    ELSE IF f.size_err THEN [ret |-> "raise", evals |-> <<"ext", "size">>]
    ELSE IF f.too_big THEN [ret |-> "True", evals |-> <<"ext", "size">>]
    ELSE IF f.mtime_err THEN [ret |-> "raise", evals |-> <<"ext", "size", "mtime">>]
    ELSE IF f.too_old THEN [ret |-> "True", evals |-> <<"ext", "size", "mtime">>]
    ELSE IF f.pattern THEN [ret |-> "True", evals |-> <<"ext", "size", "mtime", "pattern">>]
    ELSE IF use_checksum_cache THEN ChecksumRule(f, path, cache)
    ELSE [ret |-> "False", evals |-> <<"ext", "size", "mtime", "pattern">>]


(***************************************************************************)
(* State.                                                                  *)
(***************************************************************************)
VARIABLES
    \* ---- the pipeline (Spec) ----
    config,           \* the resolved configuration of the runs
    disk,             \* regular files of the tree: path -> what the rules read
    cache_file,       \* the checksum cache file on disk
    pc,               \* position of collect_and_write_context
    run,              \* number of runs started
    checksum_cache,   \* the in-memory mapping shared by filter and workers
    file_candidates,  \* result of collect_file_candidates
    fi,               \* index of the filter loop in file_candidates
    filtered_files,   \* candidates for which should_ignore_file was False
    task,             \* per path: position of its read_file_content task
    future,           \* per path: the content its task returned, if any
    collected,        \* futures already yielded by as_completed
    results,          \* (path, content) pairs appended by the main thread
    output,           \* text of the artifact <output_filename>
    output_gz,        \* bytes of the artifact <output_filename>.gz
    log,              \* per run: what happened (history; the code has none)
    changed,          \* regular files modified since the last run ended
    \* ---- should_ignore_file on one candidate (FilterSpec) ----
    flt,
    \* ---- parse_js_ts_file on one file (ParserSpec) ----
    psr,              \* position / locals of the scan
    matched,          \* patterns and braces found on the line last read
    \* ---- collect_file_candidates on one tree (WalkSpec) ----
    wlk,              \* the tree, the directories still to visit, the result
    \* ---- gather_js_ts_summary on one tree (SummarySpec) ----
    smy,              \* the files of the walk, the index, the summaries
    \* ---- merge_configs on one base configuration (MergeSpec) ----
    mrg               \* the list objects, the base, the configs returned

pvars == <<config, disk, cache_file, pc, run, checksum_cache, file_candidates,
           fi, filtered_files, task, future, collected, results, output,
           output_gz, log, changed>>
vars == <<pvars, flt, psr, matched, wlk, smy, mrg>>

Range(s) == {s[k] : k \in 1..Len(s)}

RECURSIVE SeqOf(_)
\* The members of a set of paths as a sequence, in ascending order.
SeqOf(S) ==
    IF S = {} THEN <<>>
    ELSE LET m == CHOOSE x \in S : \A y \in S : x <= y
         IN  <<m>> \o SeqOf(S \ {m})

(***************************************************************************)
(* The tree the pipeline runs on.                                          *)
(***************************************************************************)
PlainFile ==
    [ext_ignored |-> FALSE, size_err |-> FALSE, too_big |-> FALSE,
     mtime_err |-> FALSE, too_old |-> FALSE, pattern |-> FALSE,
     open_err |-> FALSE, content |-> 1]

\* The kinds of regular file the pipeline is run on: one that passes rules
\* 1-4, one excluded by a rule, one whose metadata cannot be read. (Every
\* combination of the rules is covered by FilterSpec.)
FileKinds ==
    { PlainFile,
      [PlainFile EXCEPT !.too_big = TRUE],
      [PlainFile EXCEPT !.size_err = TRUE] }

\* What the rules read from a path: the cache file is a small, fresh
\* '.json' file whose bytes are the saved mapping.
FileAt(p) ==
    IF p = CachePath
    THEN [PlainFile EXCEPT !.content = CacheContent(cache_file.ver)]
    ELSE disk[p]

\* A cache file left by an earlier run: hash h stored for every regular file
\* (the file's current hash, a stale one, or no entry). cache_file.form tells
\* what the bytes are: a JSON text ("json", cache_file.map is then the value
\* json.load makes of it, a dict or NonDictValue), or nothing json.load
\* accepts / nothing that can be read ("invalid").
OldCache(h) == [p \in AllPaths |-> IF p = CachePath THEN None ELSE h]

IdleFlt == [state |-> "idle"]
IdlePsr == [pc |-> "idle"]
IdleWlk == [pc |-> "idle"]
IdleSmy == [pc |-> "idle"]
IdleMrg == [pc |-> "idle"]

Init ==
    /\ config \in [use_checksum_cache : BOOLEAN,
                   threads : 1..MaxThreads,
                   cache_in_tree : BOOLEAN,
                   compress_output : BOOLEAN]
    /\ disk \in [RegularPaths -> FileKinds]
    /\ cache_file \in
          {[exists |-> FALSE, form |-> "json", map |-> EmptyCache, ver |-> 0],
           [exists |-> TRUE, form |-> "invalid", map |-> EmptyCache, ver |-> 0],
           [exists |-> TRUE, form |-> "json", map |-> NonDictValue, ver |-> 0]}
          \cup {[exists |-> TRUE, form |-> "json", map |-> OldCache(h),
                  ver |-> 0] : h \in {None} \cup Contents}
    /\ pc = "idle"
    /\ run = 0
    /\ checksum_cache = EmptyCache
    /\ file_candidates = <<>>
    /\ fi = 1
    /\ filtered_files = <<>>
    /\ task = [p \in AllPaths |-> "none"]
    /\ future = [p \in AllPaths |-> None]
    /\ collected = {}
    /\ results = <<>>
    /\ output = <<>>
    /\ output_gz = <<>>
    /\ log = <<>>
    /\ changed = {}
    /\ flt = IdleFlt
    /\ psr = IdlePsr
    /\ matched = {}
    /\ wlk = IdleWlk
    /\ smy = IdleSmy
    /\ mrg = IdleMrg

(***************************************************************************)
(* checksums.py                                                            *)
(***************************************************************************)
load_checksum_cache(cf) ==
    IF ~cf.exists THEN EmptyCache
    ELSE IF cf.form = "invalid" THEN EmptyCache
    ELSE cf.map

\* json.dump of the mapping into the cache file; the bytes change exactly
\* when the mapping written differs from the one stored.
save_checksum_cache(cf, cache_dict) ==
    [exists |-> TRUE,
     form |-> "json",
     map |-> cache_dict,
     ver |-> IF cf.exists /\ cf.form = "json" /\ cf.map = cache_dict
             THEN cf.ver ELSE cf.ver + 1]

\* A save that fails: open(cache_path, 'w') raised and the file is as it
\* was, or the write raised after the file was truncated.
failed_save(cf) ==
    {cf, [exists |-> TRUE, form |-> "invalid", map |-> EmptyCache,
          ver |-> cf.ver + 1]}

(***************************************************************************)
(* file_scanner.collect_file_candidates: every regular file of the tree    *)
(* carries an allowed extension; the cache file is walked too when it      *)
(* exists under the root.                                                  *)
(***************************************************************************)
collect_file_candidates ==
    SeqOf(RegularPaths \cup
          (IF config.cache_in_tree /\ cache_file.exists THEN {CachePath} ELSE {}))

(***************************************************************************)
(* aggregator.collect_and_write_context                                    *)
(***************************************************************************)
Note(field, value) == [log EXCEPT ![run] = [@ EXCEPT ![field] = value]]

\* Steps 1-4: output naming, cache load, candidate walk.
BeginRun ==
    /\ run' = run + 1
    /\ checksum_cache' = IF config.use_checksum_cache
                         THEN load_checksum_cache(cache_file)
                         ELSE EmptyCache
    /\ file_candidates' = collect_file_candidates
    /\ fi' = 1
    /\ filtered_files' = <<>>
    /\ task' = [p \in AllPaths |-> "none"]
    /\ future' = [p \in AllPaths |-> None]
    /\ collected' = {}
    /\ results' = <<>>
    /\ log' = Append(log, [changed |-> changed,
                           loaded |-> checksum_cache',
                           loads |-> IF config.use_checksum_cache
                                     THEN 1 ELSE 0,
                           saves |-> 0,
                           hashed |-> [p \in AllPaths |-> None],
                           io_failure |-> FALSE,
                           save_failed |-> FALSE,
                           submitted |-> {},
                           wrote |-> FALSE,
                           records |-> {},
                           compress |-> config.compress_output,
                           md5_calls |-> [p \in AllPaths |-> 0]])
    /\ changed' = {}
    /\ pc' = "filter"
    /\ UNCHANGED <<config, disk, cache_file, output, output_gz, flt, psr, matched, wlk, smy, mrg>>

\* Variant: the filter stores the hash it computed for the checksum rule.
FilterNext_stores ==
    /\ pc = "filter"
    /\ fi <= Len(file_candidates)
    /\ LET fpath == file_candidates[fi]
           r == should_ignore_file(FileAt(fpath), fpath,
                                   config.use_checksum_cache, checksum_cache)
       IN  /\ filtered_files' = IF r.ret = "False"
                                THEN Append(filtered_files, fpath)
                                ELSE filtered_files
           /\ pc' = IF r.ret \in {"raise", "AttributeError"}
                    THEN "aborted" ELSE "filter"
           /\ checksum_cache' =
                 IF "checksum" \in Range(r.evals) /\ r.ret \in {"True", "False"}
                 THEN [checksum_cache EXCEPT
                          ![fpath] = compute_md5(FileAt(fpath).content)]
                 ELSE checksum_cache
           /\ log' = [log EXCEPT ![run] =
                        [@ EXCEPT !.io_failure = @ \/ r.ret = "raise",
                                  !.md5_calls[fpath] =
                                      IF "checksum" \in Range(r.evals)
                                      THEN @ + 1 ELSE @]]
    /\ fi' = fi + 1
    /\ UNCHANGED <<config, disk, cache_file, run,
                   file_candidates, task, collected, results, output, output_gz, changed,
                   future, flt, psr, matched, wlk, smy, mrg>>

\* Step 5, one iteration of the loop over file_candidates. An exception of
\* should_ignore_file is not caught: it leaves collect_and_write_context.
FilterNext ==
    /\ pc = "filter"
    /\ fi <= Len(file_candidates)
    /\ LET fpath == file_candidates[fi]
           r == should_ignore_file(FileAt(fpath), fpath,
                                   config.use_checksum_cache, checksum_cache)
       IN  /\ filtered_files' = IF r.ret = "False"
                                THEN Append(filtered_files, fpath)
                                ELSE filtered_files
           /\ pc' = IF r.ret \in {"raise", "AttributeError"}
                    THEN "aborted" ELSE "filter"
           /\ log' = [log EXCEPT ![run] =
                        [@ EXCEPT !.io_failure = @ \/ r.ret = "raise",
                                  !.md5_calls[fpath] =
                                      IF "checksum" \in Range(r.evals)
                                      THEN @ + 1 ELSE @]]
    /\ fi' = fi + 1
    /\ UNCHANGED <<config, disk, cache_file, run, checksum_cache,
                   file_candidates, task, collected, results, output, output_gz, changed,
                   future, flt, psr, matched, wlk, smy, mrg>>

\* Variant: the pool is started on the files kept so far, before the filter
\* loop has seen every candidate.
Submit_early ==
    /\ pc = "filter"
    /\ task' = [p \in AllPaths |->
                   IF p \in Range(filtered_files) THEN "pending" ELSE "none"]
    /\ log' = Note("submitted", Range(filtered_files))
    /\ pc' = "read"
    /\ UNCHANGED <<config, disk, cache_file, run, checksum_cache,
                   file_candidates, fi, filtered_files, collected, results,
                   output, output_gz, changed, future, flt, psr, matched, wlk, smy, mrg>>

\* Step 6: one task per filtered file is submitted to the pool.
Submit ==
    /\ pc = "filter"
    /\ fi > Len(file_candidates)
    /\ task' = [p \in AllPaths |->
                   IF p \in Range(filtered_files) THEN "pending" ELSE "none"]
    /\ log' = Note("submitted", Range(filtered_files))
    /\ pc' = "read"
    /\ UNCHANGED <<config, disk, cache_file, run, checksum_cache,
                   file_candidates, fi, filtered_files, collected, results,
                   output, output_gz, changed, future, flt, psr, matched, wlk, smy, mrg>>

Running == {p \in AllPaths : task[p] \in {"hash", "store", "read"}}

\* The tasks not yet taken by a worker, in the order of their submission.
WorkQueue == SelectSeq(filtered_files, LAMBDA q : task[q] = "pending")

\* ThreadPoolExecutor(max_workers=threads): a free worker takes the task at
\* the head of the work queue.
WorkerStart(p) ==
    /\ pc = "read"
    /\ WorkQueue # <<>>
    /\ p = Head(WorkQueue)
    /\ Cardinality(Running) < config.threads
    /\ task' = [task EXCEPT ![p] = IF config.use_checksum_cache
                                   THEN "hash" ELSE "read"]
    /\ UNCHANGED <<config, disk, cache_file, pc, run, checksum_cache,
                   file_candidates, fi, filtered_files, collected, results,
                   output, output_gz, log, changed, future, flt, psr, matched, wlk, smy, mrg>>

\* read_file_content: file_md5 = compute_md5(file_path); opening may raise.
WorkerHash(p) ==
    /\ task[p] = "hash"
    /\ \E ok \in BOOLEAN :
          /\ task' = [task EXCEPT ![p] = IF ok THEN "store" ELSE "failed"]
          /\ log' = [log EXCEPT ![run] =
                       [@ EXCEPT !.io_failure = @ \/ ~ok,
                                 !.md5_calls[p] = @ + 1,
                                 !.hashed[p] =
                                     IF ok
                                     THEN compute_md5(FileAt(p).content)
                                     ELSE @]]
    /\ UNCHANGED <<config, disk, cache_file, pc, run, checksum_cache,
                   file_candidates, fi, filtered_files, collected, results,
                   output, output_gz, changed, future, flt, psr, matched, wlk, smy, mrg>>

\* Variant: a worker writes back the mapping as it was loaded, with its own
\* entry set.
WorkerStore_writes_back(p) ==
    /\ task[p] = "store"
    /\ checksum_cache' = [log[run].loaded EXCEPT
                             ![p] = compute_md5(FileAt(p).content)]
    /\ task' = [task EXCEPT ![p] = "read"]
    /\ UNCHANGED <<config, disk, cache_file, pc, run, file_candidates, fi,
                   filtered_files, collected, results, output, output_gz, log, changed,
                   future, flt, psr, matched, wlk, smy, mrg>>

\* read_file_content: checksum_cache[file_path] = file_md5. No lock is
\* taken; the store itself is one dictionary assignment.
WorkerStore(p) ==
    /\ task[p] = "store"
    /\ checksum_cache' = [checksum_cache EXCEPT
                             ![p] = compute_md5(FileAt(p).content)]
    /\ task' = [task EXCEPT ![p] = "read"]
    /\ UNCHANGED <<config, disk, cache_file, pc, run, file_candidates, fi,
                   filtered_files, collected, results, output, output_gz, log, changed,
                   future, flt, psr, matched, wlk, smy, mrg>>

\* read_file_content: open + f.read(); returns (file_path, content) or raises.
WorkerRead(p) ==
    /\ task[p] = "read"
    /\ \E ok \in BOOLEAN :
          /\ task' = [task EXCEPT ![p] = IF ok THEN "ok" ELSE "failed"]
          /\ future' = IF ok
                       THEN [future EXCEPT ![p] = FileAt(p).content]
                       ELSE future
          /\ log' = IF ok THEN log ELSE Note("io_failure", TRUE)
    /\ UNCHANGED <<config, disk, cache_file, pc, run, checksum_cache,
                   file_candidates, fi, filtered_files, collected, results,
                   output, output_gz, changed, flt, psr, matched, wlk, smy, mrg>>

\* Variant: a failed task discards what was gathered so far.
handle_future_drop_all(p) ==
    IF task[p] = "ok"
    THEN Append(results, <<p, future[p]>>)
    ELSE <<>>

\* One iteration of `for fut in as_completed(future_map)`: the result of a
\* finished task is appended, the exception of a failed one is logged.
handle_future(p) ==
    IF task[p] = "ok"
    THEN Append(results, <<p, future[p]>>)
    ELSE results

\* Variant: the exception of a failed task is not caught by the main thread.
Collect_uncaught(p) ==
    /\ pc = "read"
    /\ task[p] \in {"ok", "failed"}
    /\ p \notin collected
    /\ collected' = collected \cup {p}
    /\ results' = handle_future(p)
    /\ pc' = IF task[p] = "failed" THEN "aborted" ELSE pc
    /\ UNCHANGED <<config, disk, cache_file, run, checksum_cache,
                   file_candidates, fi, filtered_files, task, output, output_gz, log,
                   changed, future, flt, psr, matched, wlk, smy, mrg>>

Collect(p) ==
    /\ pc = "read"
    /\ task[p] \in {"ok", "failed"}
    /\ p \notin collected
    /\ collected' = collected \cup {p}
    /\ results' = handle_future(p)
    /\ UNCHANGED <<config, disk, cache_file, pc, run, checksum_cache,
                   file_candidates, fi, filtered_files, task, output, output_gz, log,
                   changed, future, flt, psr, matched, wlk, smy, mrg>>

\* Variant: the loop is left as soon as no finished future is waiting.
AllCollected_no_wait ==
    \A p \in Range(filtered_files) :
        task[p] \in {"ok", "failed"} => p \in collected

\* as_completed is exhausted once every future was yielded; leaving the
\* `with` block then joins the pool.
AllCollected == collected = Range(filtered_files)

PoolDrained ==
    /\ pc = "read"
    /\ AllCollected
    /\ pc' = "write"
    /\ UNCHANGED <<config, disk, cache_file, run, checksum_cache,
                   file_candidates, fi, filtered_files, task, collected,
                   results, output, output_gz, log, changed, future, flt, psr, matched, wlk, smy, mrg>>

\* Steps 7-8: the artifact is opened (truncated) and every record written,
\* through gzip into <output_filename>.gz when compress_output is set.
WriteOutput ==
    /\ pc = "write"
    /\ IF config.compress_output
       THEN /\ output_gz' = gzip_write(write_records(results))
            /\ UNCHANGED output
       ELSE /\ output' = write_records(results)
            /\ UNCHANGED output_gz
    /\ log' = [log EXCEPT ![run] =
                 [@ EXCEPT !.wrote = TRUE, !.records = Range(results)]]
    /\ pc' = "save"
    /\ UNCHANGED <<config, disk, cache_file, run, checksum_cache,
                   file_candidates, fi, filtered_files, task, collected,
                   results, changed, future, flt, psr, matched, wlk, smy, mrg>>

\* The text a reader gets from the artifact the configuration names.
ArtifactText ==
    IF config.compress_output THEN gzip_read(output_gz) ELSE output

\* Variant: the exception of a failed save is not caught.
SaveCache_uncaught ==
    /\ pc = "save"
    /\ IF config.use_checksum_cache
       THEN \/ /\ cache_file' = save_checksum_cache(cache_file, checksum_cache)
               /\ pc' = "done"
               /\ log' = Note("saves", log[run].saves + 1)
            \/ /\ cache_file' \in failed_save(cache_file)
               /\ pc' = "aborted"
               /\ log' = [log EXCEPT ![run] =
                            [@ EXCEPT !.save_failed = TRUE,
                                      !.saves = @ + 1]]
       ELSE /\ pc' = "done"
            /\ UNCHANGED <<cache_file, log>>
    /\ UNCHANGED <<config, disk, run, checksum_cache, file_candidates, fi,
                   filtered_files, task, collected, results, output, output_gz,
                   changed, future, flt, psr, matched, wlk, smy, mrg>>

\* Variant: the mapping is saved whether or not caching is enabled.
SaveCache_always ==
    /\ pc = "save"
    /\ \/ /\ cache_file' = save_checksum_cache(cache_file, checksum_cache)
          /\ log' = Note("saves", log[run].saves + 1)
       \/ /\ cache_file' \in failed_save(cache_file)
          /\ log' = [log EXCEPT ![run] =
                       [@ EXCEPT !.save_failed = TRUE,
                                 !.saves = @ + 1]]
    /\ pc' = "done"
    /\ UNCHANGED <<config, disk, run, checksum_cache, file_candidates, fi,
                   filtered_files, task, collected, results, output, output_gz, changed,
                   future, flt, psr, matched, wlk, smy, mrg>>

\* Step 9: save_checksum_cache swallows a failure of the write.
SaveCache ==
    /\ pc = "save"
    /\ IF config.use_checksum_cache
       THEN \/ /\ cache_file' = save_checksum_cache(cache_file, checksum_cache)
               /\ log' = Note("saves", log[run].saves + 1)
            \/ /\ cache_file' \in failed_save(cache_file)
               /\ log' = [log EXCEPT ![run] =
                            [@ EXCEPT !.save_failed = TRUE,
                                      !.saves = @ + 1]]
       ELSE UNCHANGED <<cache_file, log>>
    /\ pc' = "done"
    /\ UNCHANGED <<config, disk, run, checksum_cache, file_candidates, fi,
                   filtered_files, task, collected, results, output, output_gz, changed,
                   future, flt, psr, matched, wlk, smy, mrg>>

\* Between two runs the content of a regular file is edited (once: its
\* content then differs from the one the previous run saw).
Modify(p) ==
    /\ pc \in {"done", "aborted"}
    /\ run < MaxRuns
    /\ p \notin changed
    /\ \E c \in Contents \ {disk[p].content} :
          disk' = [disk EXCEPT ![p] = [@ EXCEPT !.content = c]]
    /\ changed' = changed \cup {p}
    /\ UNCHANGED <<config, cache_file, pc, run, checksum_cache,
                   file_candidates, fi, filtered_files, task, collected,
                   results, output, output_gz, log, future, flt, psr, matched, wlk, smy, mrg>>

\* The first invocation.
StartRun ==
    /\ pc = "idle"
    /\ BeginRun

\* A later invocation, after the previous one returned or died.
StartNextRun ==
    /\ pc \in {"done", "aborted"}
    /\ run < MaxRuns
    /\ BeginRun

Next ==
    \/ StartRun
    \/ FilterNext
    \/ Submit
    \/ \E p \in AllPaths : WorkerStart(p)
    \/ \E p \in AllPaths : WorkerHash(p)
    \/ \E p \in AllPaths : WorkerStore(p)
    \/ \E p \in AllPaths : WorkerRead(p)
    \/ \E p \in AllPaths : Collect(p)
    \/ PoolDrained
    \/ WriteOutput
    \/ SaveCache

\* One run of the pipeline.
Spec == Init /\ [][Next]_vars

\* The steps of the main thread, and those of the task of path p.
MainThread ==
    \/ StartRun
    \/ FilterNext
    \/ Submit
    \/ \E p \in AllPaths : Collect(p)
    \/ PoolDrained
    \/ WriteOutput
    \/ SaveCache

Task(p) ==
    \/ WorkerStart(p)
    \/ WorkerHash(p)
    \/ WorkerStore(p)
    \/ WorkerRead(p)

\* One run in which the main thread is not stopped for ever while it can
\* take a step, a free worker takes the task at the head of the queue, and
\* every hash and read of a task returns or raises.
LiveSpec ==
    /\ Init
    /\ [][Next]_vars
    /\ WF_vars(MainThread)
    /\ \A p \in AllPaths : WF_vars(Task(p))

RepeatNext ==
    \/ Next
    \/ StartNextRun
    \/ \E p \in RegularPaths : Modify(p)

\* Up to MaxRuns runs in a row on the same tree with the same configuration.
RepeatSpec == Init /\ [][RepeatNext]_vars

\* Between two runs compress_output is switched (once).
ToggleCompress ==
    /\ pc \in {"done", "aborted"}
    /\ run < MaxRuns
    /\ config.compress_output = log[run].compress
    /\ config' = [config EXCEPT !.compress_output = ~@]
    /\ UNCHANGED <<disk, cache_file, pc, run, checksum_cache, file_candidates,
                   fi, filtered_files, task, future, collected, results,
                   output, output_gz, log, changed, flt, psr, matched, wlk, smy, mrg>>

CompressNext ==
    \/ Next
    \/ StartNextRun
    \/ ToggleCompress

\* Up to MaxRuns runs in a row on a tree that is left alone, with
\* compression switched on or off between the runs.
CompressSpec == Init /\ [][CompressNext]_vars


(***************************************************************************)
(* FilterSpec: should_ignore_file on one candidate, for every combination  *)
(* of what the rules read, both values of the caching flag and every       *)
(* cache entry of the path.                                                *)
(***************************************************************************)
Candidates ==
    [ext_ignored : BOOLEAN, size_err : BOOLEAN, too_big : BOOLEAN,
     mtime_err : BOOLEAN, too_old : BOOLEAN, pattern : BOOLEAN,
     open_err : BOOLEAN, content : Contents]

\* The pipeline at rest, for the specifications that do not run it.
PipelineIdle ==
    /\ config = [use_checksum_cache |-> FALSE, threads |-> 1,
                 cache_in_tree |-> FALSE, compress_output |-> FALSE]
    /\ disk = [p \in RegularPaths |-> PlainFile]
    /\ cache_file = [exists |-> FALSE, form |-> "json", map |-> EmptyCache,
                     ver |-> 0]
    /\ pc = "idle"
    /\ run = 0
    /\ checksum_cache = EmptyCache
    /\ file_candidates = <<>>
    /\ fi = 1
    /\ filtered_files = <<>>
    /\ task = [p \in AllPaths |-> "none"]
    /\ future = [p \in AllPaths |-> None]
    /\ collected = {}
    /\ results = <<>>
    /\ output = <<>>
    /\ output_gz = <<>>
    /\ log = <<>>
    /\ changed = {}

FilterInit ==
    /\ PipelineIdle
    /\ flt \in [state : {"called"},
                f : Candidates,
                path : {1},
                use_checksum_cache : BOOLEAN,
                old_md5 : {None, NonDict} \cup Contents]
    /\ psr = IdlePsr
    /\ matched = {}
    /\ wlk = IdleWlk
    /\ smy = IdleSmy
    /\ mrg = IdleMrg

FilterReturn ==
    /\ flt.state = "called"
    /\ flt' = [state |-> "returned",
               f |-> flt.f,
               path |-> flt.path,
               use_checksum_cache |-> flt.use_checksum_cache,
               old_md5 |-> flt.old_md5,
               res |-> should_ignore_file(
                          flt.f, flt.path, flt.use_checksum_cache,
                          [EmptyCache EXCEPT ![flt.path] = flt.old_md5])]
    /\ UNCHANGED <<pvars, wlk, smy, mrg, psr, matched, wlk, smy, mrg>>

FilterNextStep ==
    \/ FilterReturn

FilterSpec == FilterInit /\ [][FilterNextStep]_vars

(***************************************************************************)
(* ParserSpec: js_parser.parse_js_ts_file.                                 *)
(*                                                                         *)
(* A line is what the scan reads from it: which of the five patterns       *)
(* search() finds on it and how many '{' and '}' it holds. CLASS_PATTERN   *)
(* ends with '\{', so a line it matches holds a '{'. The scan reads every  *)
(* line at most once, in order, so the file is produced line by line as    *)
(* the scan reads it. The name captured on a line is the index of the      *)
(* line.                                                                   *)
(***************************************************************************)
MaxLines == 3        \* lines of the scanned file
MaxBraces == 2       \* '{' (and '}') on one line
MaxLiveLines == 2    \* lines of the files whose scan is followed to its end

Lines ==
    {l \in [imp : BOOLEAN, req : BOOLEAN, fun : BOOLEAN,
             cls : BOOLEAN, pro : BOOLEAN,
             opens : 0..MaxBraces, closes : 0..MaxBraces] :
        l.cls => l.opens >= 1}

\* The patterns search() finds on a line, and the braces `in` finds on it.
Found(l) ==
    (IF l.imp THEN {"import"} ELSE {})
    \cup (IF l.req THEN {"require"} ELSE {})
    \cup (IF l.fun THEN {"function"} ELSE {})
    \cup (IF l.cls THEN {"class"} ELSE {})
    \cup (IF l.pro THEN {"prototype"} ELSE {})
    \cup (IF l.opens > 0 THEN {"{"} ELSE {})
    \cup (IF l.closes > 0 THEN {"}"} ELSE {})

\* Lines 24-39: the locals of the scan of a file of n lines.
ScanStart(n) ==
    [pc |-> "loop",
     total_lines |-> n,
     i |-> 0,
     inside_block |-> FALSE,
     brace_count |-> 0,
     found_open |-> FALSE,
     context_lines |-> 0,
     skipped_lines |-> 0,
     skipped_at |-> {},        \* history: the lines counted as skipped
     imports |-> <<>>,
     requires |-> <<>>,
     functions |-> <<>>,
     classes |-> <<>>,
     prototypes |-> <<>>]

ParserInit ==
    /\ PipelineIdle
    /\ flt = IdleFlt
    /\ \E n \in 0..MaxLines : psr = ScanStart(n)
    /\ matched = {}
    /\ wlk = IdleWlk
    /\ smy = IdleSmy
    /\ mrg = IdleMrg

\* The same for the files of at most MaxLiveLines lines.
ParserLiveInit ==
    /\ PipelineIdle
    /\ flt = IdleFlt
    /\ \E n \in 0..MaxLiveLines : psr = ScanStart(n)
    /\ matched = {}
    /\ wlk = IdleWlk
    /\ smy = IdleSmy
    /\ mrg = IdleMrg

\* Variant: a function declaration on a line inside a block is recorded.
BlockLine_records_function ==
    /\ psr.pc = "loop"
    /\ psr.i < psr.total_lines
    /\ psr.inside_block
    /\ \E l \in Lines :
          /\ matched' = Found(l)
          /\ LET bc == psr.brace_count + l.opens - l.closes
             IN  psr' = [psr EXCEPT
                           !.skipped_lines = @ + 1,
                           !.skipped_at = @ \cup {psr.i},
                           !.functions = IF l.fun THEN Append(@, psr.i) ELSE @,
                           !.brace_count = IF bc <= 0 THEN 0 ELSE bc,
                           !.inside_block = ~(bc <= 0),
                           !.i = @ + 1]
    /\ UNCHANGED <<pvars, wlk, smy, mrg, flt>>

\* Variant: the depth is not reset when the block is left.
BlockLine_no_reset ==
    /\ psr.pc = "loop"
    /\ psr.i < psr.total_lines
    /\ psr.inside_block
    /\ \E l \in Lines :
          /\ matched' = Found(l)
          /\ LET bc == psr.brace_count + l.opens - l.closes
             IN  psr' = [psr EXCEPT
                           !.skipped_lines = @ + 1,
                           !.skipped_at = @ \cup {psr.i},
                           !.brace_count = bc,
                           !.inside_block = ~(bc <= 0),
                           !.i = @ + 1]
    /\ UNCHANGED <<pvars, wlk, smy, mrg, flt>>

\* Lines 44-52: a line read while inside_block.
BlockLine ==
    /\ psr.pc = "loop"
    /\ psr.i < psr.total_lines
    /\ psr.inside_block
    /\ \E l \in Lines :
          /\ matched' = Found(l)
          /\ LET bc == psr.brace_count + l.opens - l.closes
             IN  psr' = [psr EXCEPT
                           !.skipped_lines = @ + 1,
                           !.skipped_at = @ \cup {psr.i},
                           !.brace_count = IF bc <= 0 THEN 0 ELSE bc,
                           !.inside_block = ~(bc <= 0),
                           !.i = @ + 1]
    /\ UNCHANGED <<pvars, wlk, smy, mrg, flt>>

\* Lines 54-64: the import and the require check; neither ends the
\* iteration.
\* Variant: an import line is treated like the opening of a block.
AfterImport_opens_block(p, l) ==
    IF l.imp
    THEN [p EXCEPT !.imports = Append(@, p.i), !.context_lines = @ + 1,
                   !.inside_block = TRUE, !.brace_count = 1]
    ELSE p

AfterImport(p, l) ==
    IF l.imp
    THEN [p EXCEPT !.imports = Append(@, p.i), !.context_lines = @ + 1]
    ELSE p

\* Variant: the source of a require is recorded without counting the line.
AfterRequire_not_counted(p, l) ==
    IF l.req
    THEN [p EXCEPT !.requires = Append(@, p.i)]
    ELSE p

AfterRequire(p, l) ==
    IF l.req
    THEN [p EXCEPT !.requires = Append(@, p.i), !.context_lines = @ + 1]
    ELSE p

\* Lines 71-89 (and 96-114, 122-140): after a declaration was recorded.
\* Without '{' on the line the look-ahead loop is entered; with one the
\* block is entered at depth 1 and the iteration ends.
\* Variant: the depth on entering the block is the balance of the braces of
\* the declaration line.
OpenBlock_counts_braces(p, l) ==
    IF l.opens = 0
    THEN [p EXCEPT !.found_open = FALSE, !.pc = "ahead"]
    ELSE [p EXCEPT !.inside_block = l.opens - l.closes > 0,
                   !.brace_count = IF l.opens - l.closes > 0
                                   THEN l.opens - l.closes ELSE 0,
                   !.i = @ + 1]

\* Variant: the block is entered without moving on to the next line.
OpenBlock_no_advance(p, l) ==
    IF l.opens = 0
    THEN [p EXCEPT !.found_open = FALSE, !.pc = "ahead"]
    ELSE [p EXCEPT !.inside_block = TRUE, !.brace_count = 1]

OpenBlock(p, l) ==
    IF l.opens = 0
    THEN [p EXCEPT !.found_open = FALSE, !.pc = "ahead"]
    ELSE [p EXCEPT !.inside_block = TRUE, !.brace_count = 1, !.i = @ + 1]

\* Lines 66-142: function, class, prototype method, or none of them.
AfterDeclaration(p, l) ==
    IF l.fun
    THEN OpenBlock([p EXCEPT !.functions = Append(@, p.i),
                             !.context_lines = @ + 1], l)
    ELSE IF l.cls
    THEN OpenBlock([p EXCEPT !.classes = Append(@, p.i),
                             !.context_lines = @ + 1], l)
    ELSE IF l.pro
    THEN OpenBlock([p EXCEPT !.prototypes = Append(@, p.i),
                             !.context_lines = @ + 1], l)
    ELSE [p EXCEPT !.i = @ + 1]

\* Lines 54-142: a line read while not inside_block.
ScanLine ==
    /\ psr.pc = "loop"
    /\ psr.i < psr.total_lines
    /\ ~psr.inside_block
    /\ \E l \in Lines :
          /\ matched' = Found(l)
          /\ psr' = AfterDeclaration(AfterRequire(AfterImport(psr, l), l), l)
    /\ UNCHANGED <<pvars, wlk, smy, mrg, flt>>

\* Variant: the line holding '{' is not counted as skipped.
AheadLine_open_not_skipped ==
    /\ psr.pc = "ahead"
    /\ psr.i < psr.total_lines /\ ~psr.found_open
    /\ psr.i + 1 < psr.total_lines
    /\ \E l \in Lines :
          /\ matched' = Found(l)
          /\ psr' = IF l.opens > 0
                    THEN [psr EXCEPT !.i = @ + 1,
                                     !.found_open = TRUE,
                                     !.brace_count = 1,
                                     !.inside_block = TRUE]
                    ELSE [psr EXCEPT !.i = @ + 1,
                                     !.skipped_lines = @ + 1,
                                     !.skipped_at = @ \cup {psr.i + 1}]
    /\ UNCHANGED <<pvars, wlk, smy, mrg, flt>>

\* Lines 73-82: one iteration of the look-ahead loop that reads the next
\* line.
AheadLine ==
    /\ psr.pc = "ahead"
    /\ psr.i < psr.total_lines /\ ~psr.found_open
    /\ psr.i + 1 < psr.total_lines
    /\ \E l \in Lines :
          /\ matched' = Found(l)
          /\ psr' = IF l.opens > 0
                    THEN [psr EXCEPT !.i = @ + 1,
                                     !.skipped_lines = @ + 1,
                                     !.skipped_at = @ \cup {psr.i + 1},
                                     !.found_open = TRUE,
                                     !.brace_count = 1,
                                     !.inside_block = TRUE]
                    ELSE [psr EXCEPT !.i = @ + 1,
                                     !.skipped_lines = @ + 1,
                                     !.skipped_at = @ \cup {psr.i + 1}]
    /\ UNCHANGED <<pvars, wlk, smy, mrg, flt>>

\* Lines 73-76 and 83-84: the look-ahead runs off the end of the file
\* (break), then `i += 1; continue`.
AheadBreak ==
    /\ psr.pc = "ahead"
    /\ psr.i < psr.total_lines /\ ~psr.found_open
    /\ psr.i + 1 >= psr.total_lines
    /\ psr' = [psr EXCEPT !.i = @ + 2, !.pc = "loop"]
    /\ UNCHANGED <<pvars, wlk, smy, mrg, flt, matched>>

\* Variant: the outer loop goes on at the line the look-ahead stopped at.
AheadExit_no_advance ==
    /\ psr.pc = "ahead"
    /\ ~(psr.i < psr.total_lines /\ ~psr.found_open)
    /\ psr' = [psr EXCEPT !.pc = "loop"]
    /\ UNCHANGED <<pvars, wlk, smy, mrg, flt, matched>>

\* Lines 73 and 83-84: the loop condition is false, then `i += 1; continue`.
AheadExit ==
    /\ psr.pc = "ahead"
    /\ ~(psr.i < psr.total_lines /\ ~psr.found_open)
    /\ psr' = [psr EXCEPT !.i = @ + 1, !.pc = "loop"]
    /\ UNCHANGED <<pvars, wlk, smy, mrg, flt, matched>>

\* Variant: the skipped lines are not subtracted.
Stats_skipped_not_subtracted(p) ==
    [total_lines |-> p.total_lines,
     context_lines |-> p.context_lines,
     skipped_lines |-> p.skipped_lines,
     non_context_lines |-> p.total_lines - p.context_lines]

\* Lines 151-156: the stats block of the returned summary.
Stats(p) ==
    [total_lines |-> p.total_lines,
     context_lines |-> p.context_lines,
     skipped_lines |-> p.skipped_lines,
     non_context_lines |-> p.total_lines - p.context_lines - p.skipped_lines]

\* Lines 41 and 144-157: the loop ends and the summary is returned.
Return ==
    /\ psr.pc = "loop"
    /\ ~(psr.i < psr.total_lines)
    /\ psr' = [pc |-> "done",
               imports |-> psr.imports,
               requires |-> psr.requires,
               functions |-> psr.functions,
               classes |-> psr.classes,
               prototype_methods |-> psr.prototypes,
               stats |-> Stats(psr),
               skipped_at |-> psr.skipped_at]
    /\ UNCHANGED <<pvars, wlk, smy, mrg, flt, matched>>

ParserNext ==
    \/ BlockLine
    \/ ScanLine
    \/ AheadLine
    \/ AheadBreak
    \/ AheadExit
    \/ Return

ParserSpec == ParserInit /\ [][ParserNext]_vars

\* The scan is a sequential loop: it keeps taking steps while it can.
ParserLiveSpec == ParserLiveInit /\ [][ParserNext]_vars /\ WF_vars(ParserNext)


(***************************************************************************)
(* WalkSpec: file_scanner.collect_file_candidates.                         *)
(*                                                                         *)
(* The tree is the root (RootDir) and NumDirs directories below it, each   *)
(* inside a directory of smaller number. A directory is described by what  *)
(* can be tested of it: name_ignored (its name is in ignore_directories),  *)
(* name_pattern (re.search finds an ignore-pattern in its name),           *)
(* path_pattern (re.search finds an ignore-pattern in its full path).      *)
(* A file name is a stem and the suffix it ends with.                      *)
(***************************************************************************)
RootDir == 0
SubDirs == 1..NumDirs
Dirs == {RootDir} \cup SubDirs

DirKinds ==
    { [name_ignored |-> FALSE, name_pattern |-> FALSE, path_pattern |-> FALSE],
      \* 'node_modules'
      [name_ignored |-> TRUE, name_pattern |-> FALSE, path_pattern |-> FALSE],
      \* 'secrets' with pattern '.*secret.*'
      [name_ignored |-> FALSE, name_pattern |-> TRUE, path_pattern |-> TRUE],
      \* 'pkg' under 'proj' with pattern 'proj/pkg'
      [name_ignored |-> FALSE, name_pattern |-> FALSE, path_pattern |-> TRUE],
      \* 'build' with pattern '^build$'
      [name_ignored |-> FALSE, name_pattern |-> TRUE, path_pattern |-> FALSE] }

file_extensions == {".py"}
FileNames == {[stem |-> "mod", suffix |-> ".py"],
              [stem |-> "data", suffix |-> ".bin"]}

\* file_scanner.should_skip_directory(dirname, config): only the name of
\* the directory is handed over and tested.
should_skip_directory(dir) ==
    IF dir.name_ignored THEN TRUE
    ELSE IF dir.name_pattern THEN TRUE
    ELSE FALSE

\* Variant: every file name passes the extension test.
has_allowed_extension_any(fname) == TRUE

\* any(fname.endswith(ext) for ext in config['file_extensions'])
has_allowed_extension(fname) ==
    \E ext \in file_extensions : fname.suffix = ext

\* The names of a directory in listing order.
FileOrder == <<[stem |-> "data", suffix |-> ".bin"],
               [stem |-> "mod", suffix |-> ".py"]>>

Children(d) == {c \in SubDirs : wlk.parent[c] = d}

WalkInit ==
    /\ PipelineIdle
    /\ flt = IdleFlt
    /\ psr = IdlePsr
    /\ matched = {}
    /\ smy = IdleSmy
    /\ mrg = IdleMrg
    /\ \E parent \in [SubDirs -> Dirs], kind \in [SubDirs -> DirKinds],
          files \in [Dirs -> SUBSET FileNames] :
          /\ \A d \in SubDirs : parent[d] < d
          /\ wlk = [pc |-> "walk",
                    parent |-> parent,
                    kind |-> kind,
                    files |-> files,
                    stack |-> <<RootDir>>,
                    file_candidates |-> <<>>]

\* One iteration of `for root, dirs, files in os.walk(base_path,
\* topdown=True)`: dirs is pruned in place, the files with an allowed
\* extension are appended, and the walk goes on into the directories left in
\* dirs before any other.
WalkDir ==
    /\ wlk.pc = "walk"
    /\ wlk.stack # <<>>
    /\ LET root == Head(wlk.stack)
           dirs == SelectSeq(SeqOf(Children(root)),
                             LAMBDA d : ~should_skip_directory(wlk.kind[d]))
           files == SelectSeq(FileOrder, LAMBDA f : f \in wlk.files[root])
           found == SelectSeq(files, has_allowed_extension)
       IN  wlk' = [wlk EXCEPT
                      !.stack = dirs \o Tail(wlk.stack),
                      !.file_candidates =
                          @ \o [k \in 1..Len(found) |->
                                   [dir |-> root, name |-> found[k]]]]
    /\ UNCHANGED <<pvars, flt, psr, matched, smy, mrg>>

\* os.walk is exhausted: return file_candidates.
WalkReturn ==
    /\ wlk.pc = "walk"
    /\ wlk.stack = <<>>
    /\ wlk' = [wlk EXCEPT !.pc = "done"]
    /\ UNCHANGED <<pvars, flt, psr, matched, smy, mrg>>

WalkNext ==
    \/ WalkDir
    \/ WalkReturn

WalkSpec == WalkInit /\ [][WalkNext]_vars


(***************************************************************************)
(* js_parser.py: gather_js_ts_summary, and the step of                     *)
(* collect_and_write_context that calls it (SummarySpec).                  *)
(***************************************************************************)
\* The files os.walk yields below root_dir, in the order it yields them.
\* gather_js_ts_summary prunes nothing, so the tree is its list of files.
TreeFiles == 1..NumTreeFiles

\* What matters of a file: "script" has one of the four suffixes and can be
\* opened, "unreadable" has one of the four suffixes and open() raises
\* OSError on it (dangling link, no permission, a directory of that name),
\* "other" has none of the suffixes.
TreeFileKinds == {"script", "unreadable", "other"}

\* smy.below_ignored tells, per file, whether it lies below a directory that
\* collect_file_candidates prunes (node_modules, .git, venv, ...): os.walk
\* is iterated here with the list of directories thrown away
\* (`for dirpath, _, filenames`), so such a file is yielded like any other.

\* fname.endswith(('.js', '.jsx', '.ts', '.tsx'))
is_script(kind) == kind # "other"

\* file_path.open(...) at the head of parse_js_ts_file: the only statement
\* of the function that can raise; nothing in it catches.
open_raises(kind) == kind = "unreadable"

SummaryInit ==
    /\ PipelineIdle
    /\ flt = IdleFlt
    /\ psr = IdlePsr
    /\ matched = {}
    /\ wlk = IdleWlk
    /\ mrg = IdleMrg
    /\ \E kind \in [TreeFiles -> TreeFileKinds],
          below_ignored \in [TreeFiles -> BOOLEAN] :
          smy = [pc |-> "walk",
                 kind |-> kind,
                 below_ignored |-> below_ignored,
                 i |-> 1,
                 summaries |-> <<>>,
                 js_summary_exists |-> FALSE,
                 js_summary |-> <<>>]

\* Variant: the files below a directory the candidate collector prunes are
\* passed over.
SummaryFile_prunes ==
    /\ smy.pc = "walk"
    /\ smy.i <= NumTreeFiles
    /\ LET kind == smy.kind[smy.i]
       IN  IF ~is_script(kind) \/ smy.below_ignored[smy.i]
           THEN smy' = [smy EXCEPT !.i = @ + 1]
           ELSE IF open_raises(kind)
           THEN smy' = [smy EXCEPT !.pc = "raised"]
           ELSE smy' = [smy EXCEPT !.i = @ + 1,
                                   !.summaries = Append(@, [file |-> smy.i])]
    /\ UNCHANGED <<pvars, flt, psr, matched, wlk, mrg>>

\* One iteration of `for fname in filenames`: a file without a script suffix
\* is passed over; parse_js_ts_file is called on the others, and its summary
\* appended.  The call is not inside a try: the OSError of open() leaves
\* gather_js_ts_summary, and collect_and_write_context, which calls it
\* outside any try as well.
SummaryFile ==
    /\ smy.pc = "walk"
    /\ smy.i <= NumTreeFiles
    /\ LET kind == smy.kind[smy.i]
       IN  IF ~is_script(kind)
           THEN smy' = [smy EXCEPT !.i = @ + 1]
           ELSE IF open_raises(kind)
           THEN smy' = [smy EXCEPT !.pc = "raised"]
           ELSE smy' = [smy EXCEPT !.i = @ + 1,
                                   !.summaries = Append(@, [file |-> smy.i])]
    /\ UNCHANGED <<pvars, flt, psr, matched, wlk, mrg>>

\* os.walk is exhausted: return summaries.
SummaryReturn ==
    /\ smy.pc = "walk"
    /\ smy.i > NumTreeFiles
    /\ smy' = [smy EXCEPT !.pc = "returned"]
    /\ UNCHANGED <<pvars, flt, psr, matched, wlk, mrg>>

\* json.dump(summary_list, f, indent=2) into the summary file.
SummaryDump ==
    /\ smy.pc = "returned"
    /\ smy' = [smy EXCEPT !.pc = "dumped",
                          !.js_summary_exists = TRUE,
                          !.js_summary = smy.summaries]
    /\ UNCHANGED <<pvars, flt, psr, matched, wlk, mrg>>

SummaryNext ==
    \/ SummaryFile
    \/ SummaryReturn
    \/ SummaryDump

SummarySpec == SummaryInit /\ [][SummaryNext]_vars


(***************************************************************************)
(* config.py: merge_configs on DEFAULT_CONFIG (MergeSpec).                 *)
(***************************************************************************)
\* A configuration is a dict; a value of it is a scalar or a reference to a
\* list object.  mrg.heap holds the list objects, a reference is an index
\* into it.  Two keys stand for the rest: one scalar, one list.
ConfigKeys == <<"threads", "ignore_patterns">>

Scalar(v) == [list |-> FALSE, val |-> v]
ListRef(r) == [list |-> TRUE, ref |-> r]
ListValue(items) == [list |-> TRUE, items |-> items]

\* The list object of DEFAULT_CONFIG['ignore_patterns'] at import.
DefaultPatterns == <<".*secret.*", ".*\\.log">>

DEFAULT_CONFIG ==
    [threads |-> Scalar(8), ignore_patterns |-> ListRef(1)]

\* The override configurations merged: what load_config_file can return for
\* the two keys.  A key may be missing; a list key may hold JSON null.
Overrides ==
    {o \in UNION {[D -> {Scalar(4), Scalar(None), ListValue(<<>>),
                         ListValue(<<"tmp">>), ListValue(<<"tmp", "bak">>)}] :
                     D \in SUBSET Range(ConfigKeys)} :
        /\ "threads" \in DOMAIN o => o["threads"] = Scalar(4)
        /\ "ignore_patterns" \in DOMAIN o => o["ignore_patterns"] # Scalar(4)}

\* The body of `for key, value in override_config.items()` for the keys
\* from the k-th on, on the state [heap, merged]:
\*     if isinstance(value, list) and isinstance(merged.get(key), list):
\*         merged[key].extend(value)     -- the list object merged[key] refers to
\*     else:
\*         merged[key] = value
RECURSIVE merge_keys(_, _, _)
merge_keys(st, override, k) ==
    IF k > Len(ConfigKeys) THEN st
    ELSE LET key == ConfigKeys[k]
         IN  IF key \notin DOMAIN override
             THEN merge_keys(st, override, k + 1)
             ELSE LET value == override[key]
                  IN  IF value.list /\ st.merged[key].list
                      THEN merge_keys(
                             [st EXCEPT !.heap[st.merged[key].ref] =
                                            @ \o value.items],
                             override, k + 1)
                      ELSE IF value.list
                      THEN merge_keys(
                             [heap |-> Append(st.heap, value.items),
                              merged |-> [st.merged EXCEPT
                                  ![key] = ListRef(Len(st.heap) + 1)]],
                             override, k + 1)
                      ELSE merge_keys(
                             [st EXCEPT !.merged[key] = value],
                             override, k + 1)

\* merged = base_config.copy() is a shallow copy: merged holds the same
\* references as base_config.
merge_configs(heap, base_config, override_config) ==
    merge_keys([heap |-> heap, merged |-> base_config], override_config, 1)

\* What a configuration reads as: every list reference replaced by the
\* contents of the list object.
Contents_of(heap, cfg) ==
    [key \in Range(ConfigKeys) |->
        IF cfg[key].list THEN heap[cfg[key].ref] ELSE cfg[key].val]

MergeInit ==
    /\ PipelineIdle
    /\ flt = IdleFlt
    /\ psr = IdlePsr
    /\ matched = {}
    /\ wlk = IdleWlk
    /\ smy = IdleSmy
    /\ mrg = [pc |-> "ready",
              heap |-> <<DefaultPatterns>>,
              merges |-> <<>>]

\* merge_configs(DEFAULT_CONFIG, override).  mrg.merges keeps, per call, the
\* override, the dict returned and what it read as when it was returned
\* (history; the code has none).
Merge ==
    /\ mrg.pc = "ready"
    /\ Len(mrg.merges) < MaxMerges
    /\ \E override \in Overrides :
          LET st == merge_configs(mrg.heap, DEFAULT_CONFIG, override)
          IN  mrg' = [mrg EXCEPT
                         !.heap = st.heap,
                         !.merges = Append(@,
                             [override |-> override,
                              merged |-> st.merged,
                              returned |-> Contents_of(st.heap, st.merged)])]
    /\ UNCHANGED <<pvars, flt, psr, matched, wlk, smy>>

MergeNext == Merge

MergeSpec == MergeInit /\ [][MergeNext]_vars


(***************************************************************************)
(* Properties.                                                             *)
(***************************************************************************)

\* C1 (ParserSpec): the stats of every returned summary satisfy
\* total_lines = context_lines + skipped_lines + non_context_lines.
C1_StatsAddUp ==
    psr.pc = "done" =>
        psr.stats.total_lines =
            psr.stats.context_lines + psr.stats.skipped_lines
                + psr.stats.non_context_lines

\* A summary with at least one line of each of the three classes.
C1_Witness ==
    /\ psr.pc = "done"
    /\ psr.stats.context_lines >= 1
    /\ psr.stats.skipped_lines >= 1
    /\ psr.stats.non_context_lines >= 1

\* The pattern of highest priority among those found on a line.
FirstPattern(found) ==
    IF "import" \in found THEN "import"
    ELSE IF "require" \in found THEN "require"
    ELSE IF "function" \in found THEN "function"
    ELSE IF "class" \in found THEN "class"
    ELSE IF "prototype" \in found THEN "prototype"
    ELSE "none"

\* The step reads a line while the scan is not inside a block.
ScanningStep ==
    /\ psr.pc = "loop"
    /\ psr.i < psr.total_lines
    /\ ~psr.inside_block
    /\ psr' # psr

Grows(list, by) == Len(list') = Len(list) + by

\* C2 (ParserSpec): a line examined in SCANNING mode triggers the action of
\* at most one pattern, the one of highest priority among those it matches
\* (import > require > function > class > prototype), and context_lines
\* increases by exactly 1 for it.
C2_OnlyFirstPatternActs ==
    [][ScanningStep =>
          LET first == FirstPattern(matched')
          IN  /\ Grows(psr.imports, IF first = "import" THEN 1 ELSE 0)
              /\ Grows(psr.requires, IF first = "require" THEN 1 ELSE 0)
              /\ Grows(psr.functions, IF first = "function" THEN 1 ELSE 0)
              /\ Grows(psr.classes, IF first = "class" THEN 1 ELSE 0)
              /\ Grows(psr.prototypes, IF first = "prototype" THEN 1 ELSE 0)
              /\ psr'.context_lines =
                    psr.context_lines + (IF first = "none" THEN 0 ELSE 1)]_vars

\* The first run returned, no I/O operation of it failed, and the tree was
\* left alone until the second run started.
SecondRunAfterCleanFirst ==
    /\ run = 2
    /\ config.use_checksum_cache
    /\ log[1].wrote /\ ~log[1].io_failure /\ ~log[1].save_failed
    /\ ~log[2].io_failure

\* The filter loop of the current run is over and its tasks were submitted.
Submitted == pc \in {"read", "write", "save", "done"}

\* C3 (RepeatSpec): second of two runs with caching enabled, no file
\* changed in between and no I/O failure: every candidate is excluded, no
\* read task is submitted and the artifact written holds no record.
C3_SecondRunReadsNothing ==
    (SecondRunAfterCleanFirst /\ log[2].changed = {} /\ Submitted) =>
        /\ log[2].submitted = {}
        /\ log[2].wrote => ArtifactText = <<>>

\* C4 (RepeatSpec): after a clean first run with caching enabled, when the
\* content of exactly one file (still passing rules 1-4) was changed, the
\* second run submits exactly that file to the reader.
C4_OnlyTheChangedFileIsRead ==
    (/\ SecondRunAfterCleanFirst
     /\ Cardinality(log[2].changed) = 1
     /\ \A p \in log[2].changed : disk[p] \in {[PlainFile EXCEPT !.content = c] :
                                                 c \in Contents}
     /\ Submitted) =>
        log[2].submitted = log[2].changed

\* The tasks of the current run that returned a pair.
Succeeded == {p \in Range(filtered_files) : task[p] = "ok"}

\* C5 (Spec): what the writer is handed is exactly the (path, content) pair
\* of every task that succeeded, each once, whatever tasks failed.
C5_ResultsAreTheSuccesses ==
    pc \in {"write", "save", "done"} =>
        /\ Range(results) = {<<p, future[p]>> : p \in Succeeded}
        /\ Len(results) = Cardinality(Succeeded)
        /\ \A p \in Succeeded \cap RegularPaths : future[p] = disk[p].content

\* The writer is handed a result although another task failed.
C5_Witness ==
    /\ pc = "write"
    /\ Succeeded # {}
    /\ \E p \in Range(filtered_files) : task[p] = "failed"

\* C6 (Spec): when the artifact is written no read task is pending or
\* running: each submitted task has returned or raised.
C6_WriteAfterAllReads ==
    (run >= 1 /\ (pc = "write" \/ log[run].wrote)) =>
        \A p \in AllPaths : task[p] \in {"none", "ok", "failed"}

\* The write phase is reached after two tasks ran, one of which failed.
C6_Witness ==
    /\ pc = "write"
    /\ Cardinality(Range(filtered_files)) >= 2
    /\ \E p \in Range(filtered_files) : task[p] = "failed"
    /\ \E p \in Range(filtered_files) : task[p] = "ok"

\* C7 (Spec): at most one worker at a time is at its update of the shared
\* checksum cache.
C7_CacheWritesExclusive ==
    Cardinality({p \in AllPaths : task[p] = "store"}) <= 1

\* C8 (Spec): a candidate whose size or modification time cannot be read is
\* excluded and the run goes on.
C8_MetadataFailureSkipsTheFile ==
    \A k \in 1..Len(file_candidates) :
        (k < fi /\ (FileAt(file_candidates[k]).size_err
                      \/ FileAt(file_candidates[k]).mtime_err)) =>
            /\ pc # "aborted"
            /\ file_candidates[k] \notin Range(filtered_files)

\* The rules in the order of the contract.
RuleOrder == <<"ext", "size", "mtime", "pattern", "checksum">>

\* Rule k holds of the candidate of FilterSpec.
RuleHolds(k) ==
    CASE k = 1 -> flt.f.ext_ignored
      [] k = 2 -> flt.f.too_big
      [] k = 3 -> flt.f.too_old
      [] k = 4 -> flt.f.pattern
      [] k = 5 -> /\ flt.use_checksum_cache
                  /\ flt.old_md5 # None
                  /\ flt.old_md5 = compute_md5(flt.f.content)

\* C9 (FilterSpec): the rules are evaluated in the order extension, size,
\* modification time, pattern, checksum; True is returned at the first rule
\* that holds and no later rule is evaluated; the hash is computed only when
\* rules 1-4 are false and caching is enabled.
C9_RulesInOrderShortCircuit ==
    flt.state = "returned" =>
        LET evals == flt.res.evals
            n == Len(evals)
        IN  /\ n \in 1..Len(RuleOrder)
            /\ evals = SubSeq(RuleOrder, 1, n)
            /\ \A k \in 1..(n - 1) : ~RuleHolds(k)
            /\ flt.res.ret = "True" => RuleHolds(n)
            /\ flt.res.ret = "False" =>
                  /\ \A k \in 1..Len(RuleOrder) : ~RuleHolds(k)
                  /\ n = IF flt.use_checksum_cache THEN 5 ELSE 4
            /\ n = 5 => /\ flt.use_checksum_cache
                        /\ \A k \in 1..4 : ~RuleHolds(k)

\* True is returned at the modification-time rule for a file that a later
\* rule (the pattern rule, and the checksum rule) would exclude too.
C9_Witness ==
    /\ flt.state = "returned"
    /\ flt.res.ret = "True"
    /\ flt.res.evals = <<"ext", "size", "mtime">>
    /\ flt.f.pattern
    /\ flt.use_checksum_cache
    /\ flt.old_md5 = compute_md5(flt.f.content)

\* C10 (FilterSpec): a path ending with an ignore-extension is excluded
\* whatever its size, age, pattern matches, cache entry and the caching
\* flag, also when its metadata cannot be read.
C10_IgnoredExtensionAlwaysExcluded ==
    (flt.state = "returned" /\ flt.f.ext_ignored) => flt.res.ret = "True"

\* An ignored extension on a file whose metadata and bytes cannot be read.
C10_Witness ==
    /\ flt.state = "returned"
    /\ flt.f.ext_ignored
    /\ flt.f.size_err /\ flt.f.mtime_err /\ flt.f.open_err
    /\ flt.use_checksum_cache
    /\ flt.res.ret = "True"


\* The regular files of the tree larger than max_file_size (their size can
\* be read).
TooBig == {p \in RegularPaths : disk[p].too_big /\ ~disk[p].size_err}

\* C11 (Spec): a candidate larger than max_file_size is excluded by the
\* filter, no read task is ever submitted for it, no record of it is
\* gathered or written, and its cache entry (or its absence), in memory and
\* in the cache file once saved, is the one loaded at the start of the run.
C11_OversizedFileIsLeftAlone ==
    \A p \in TooBig :
        /\ p \notin Range(filtered_files)
        /\ task[p] = "none"
        /\ \A k \in 1..Len(results) : results[k][1] # p
        /\ \A k \in 1..Len(ArtifactText) : ArtifactText[k] # Str("path", p)
        /\ run >= 1 =>
              /\ checksum_cache[p] = log[run].loaded[p]
              /\ (pc = "done" /\ config.use_checksum_cache
                    /\ ~log[run].save_failed) =>
                       cache_file.map[p] = log[run].loaded[p]

C11_Witness ==
    /\ pc = "done"
    /\ config.use_checksum_cache
    /\ ~log[run].save_failed
    /\ \E p \in TooBig : log[run].loaded[p] # None
    /\ ArtifactText # <<>>


\* should_ignore_file returned for a candidate of FilterSpec that rules 1-4
\* do not exclude and whose metadata could be read.
PassedRules1to4 ==
    /\ flt.state = "returned"
    /\ ~flt.f.ext_ignored /\ ~flt.f.too_big /\ ~flt.f.too_old /\ ~flt.f.pattern
    /\ ~flt.f.size_err /\ ~flt.f.mtime_err

\* C12 (FilterSpec): for a file that rules 1-4 do not exclude: with caching
\* disabled False is returned whatever the cache holds; with caching enabled
\* (the file can be hashed, the cache is a mapping) True is returned exactly
\* when the cache holds an entry for the path equal to the hash of the
\* file's current content.
C12_ChecksumRuleDecides ==
    PassedRules1to4 =>
        /\ ~flt.use_checksum_cache => flt.res.ret = "False"
        /\ (flt.use_checksum_cache /\ ~flt.f.open_err /\ flt.old_md5 # NonDict) =>
              /\ flt.res.ret \in {"True", "False"}
              /\ flt.res.ret = "True" <=>
                    /\ flt.old_md5 # None
                    /\ flt.old_md5 = compute_md5(flt.f.content)

\* With caching enabled a file whose entry is stale is not excluded.
C12_Witness ==
    /\ PassedRules1to4
    /\ flt.use_checksum_cache
    /\ ~flt.f.open_err
    /\ flt.old_md5 \in Contents \ {compute_md5(flt.f.content)}
    /\ flt.res.ret = "False"


\* C13 (Spec): with caching enabled compute_md5 is called at most once per
\* file and run: the value the filter computed is the one stored, the read
\* stage does not compute it again.
C13_HashedOncePerRun ==
    (run >= 1 /\ config.use_checksum_cache) =>
        \A p \in AllPaths : log[run].md5_calls[p] <= 1


\* C14 (Spec): the text of the artifact written is exactly, for each record
\* gathered and in their order, each once: the path, a newline, the content,
\* a newline; it holds nothing else.
C14_ArtifactIsTheRecords ==
    (run >= 1 /\ log[run].wrote) =>
        /\ Len(ArtifactText) = 4 * Len(results)
        /\ \A k \in 1..Len(results) :
              /\ ArtifactText[4 * k - 3] = Str("path", results[k][1])
              /\ ArtifactText[4 * k - 2] = Newline
              /\ ArtifactText[4 * k - 1] = Str("content", results[k][2])
              /\ ArtifactText[4 * k] = Newline

\* Two records were written, uncompressed.
C14_Witness ==
    /\ run >= 1
    /\ log[run].wrote
    /\ ~config.compress_output
    /\ Len(results) >= 2
    /\ Len(output) = 4 * Len(results)


\* The paths of the records of the artifact, in the order written.
ArtifactPaths ==
    [k \in 1..(Len(ArtifactText) \div 4) |-> ArtifactText[4 * k - 3].v]

\* C15 (Spec): the records of the artifact are in an order fixed by the
\* records themselves (ascending by path, which is also the order of
\* submission), whatever the order in which the read tasks completed.
C15_ArtifactOrderIsFixed ==
    (run >= 1 /\ log[run].wrote) =>
        \A j, k \in 1..Len(ArtifactPaths) :
            j < k => ArtifactPaths[j] < ArtifactPaths[k]


\* Two runs wrote the same records, one compressed and one not.
SameRecordsBothWays ==
    /\ run = 2
    /\ log[1].wrote /\ log[2].wrote
    /\ log[1].compress # log[2].compress
    /\ log[1].records = log[2].records

\* C16 (CompressSpec): for the same input files the decompressed bytes of
\* the artifact of a run with compression are the bytes of the artifact of
\* a run without.
C16_DecompressedEqualsPlain ==
    SameRecordsBothWays => gzip_read(output_gz) = output


\* The cache file holds nothing load_checksum_cache can turn into entries:
\* it is absent, unreadable or not JSON, or JSON of another type than object.
NoUsableCacheFile ==
    \/ ~cache_file.exists
    \/ cache_file.form = "invalid"
    \/ cache_file.map = NonDictValue

\* C17 (Spec): whatever the cache file is, load_checksum_cache yields a
\* mapping, the empty one when the file is absent, unreadable, not JSON or
\* not a JSON object, and the run is not aborted on account of it.
C17_AnyCacheFileLoadsAsMapping ==
    (run >= 1 /\ config.use_checksum_cache) =>
        /\ \A p \in AllPaths : log[run].loaded[p] # NonDict
        /\ (pc \in {"filter", "read", "write", "save"} /\ NoUsableCacheFile) =>
              log[run].loaded = EmptyCache
        /\ pc = "aborted" => log[run].io_failure


\* C18 (Spec): the step in which saving the cache fails ends the run
\* normally and leaves the artifact, plain or compressed, as the write step
\* made it.
C18_SaveFailureIsHarmless ==
    [][(pc = "save" /\ log'[run].save_failed) =>
          /\ pc' = "done"
          /\ output' = output
          /\ output_gz' = output_gz]_vars

\* A run that wrote records and then failed to save its cache.
C18_Witness ==
    /\ run >= 1
    /\ log[run].save_failed
    /\ pc = "done"
    /\ ArtifactText = write_records(results)
    /\ results # <<>>


RECURSIVE Above(_)
\* The directories below the root that a directory lies in, itself included.
Above(d) ==
    IF d = RootDir THEN {} ELSE {d} \cup Above(wlk.parent[d])

\* C19 (WalkSpec): no candidate lies, at any depth, below a directory whose
\* name is an ignored-directory name or whose full path matches an
\* ignore-pattern.
C19_NothingBelowIgnoredDirectory ==
    wlk.pc = "done" =>
        \A k \in 1..Len(wlk.file_candidates) :
            \A a \in Above(wlk.file_candidates[k].dir) :
                /\ ~wlk.kind[a].name_ignored
                /\ ~wlk.kind[a].path_pattern

\* A directory the walk does not prune, nor any directory it lies in.
NotPruned(d) == \A a \in Above(d) : ~should_skip_directory(wlk.kind[a])

\* C20 (WalkSpec): the candidates returned are exactly the files of the
\* directories not pruned whose name ends with an allowed extension, each
\* once.
C20_ExactlyTheAllowedFiles ==
    wlk.pc = "done" =>
        /\ Range(wlk.file_candidates) =
              {c \in [dir : Dirs, name : FileNames] :
                  /\ NotPruned(c.dir)
                  /\ c.name \in wlk.files[c.dir]
                  /\ \E ext \in file_extensions : c.name.suffix = ext}
        /\ Len(wlk.file_candidates) = Cardinality(Range(wlk.file_candidates))

\* The walk returned a file of a directory below the root, left out the
\* file with another suffix beside it and the files of a pruned directory.
C20_Witness ==
    /\ wlk.pc = "done"
    /\ \E d \in SubDirs :
          /\ wlk.files[d] = FileNames
          /\ \E k \in 1..Len(wlk.file_candidates) : wlk.file_candidates[k].dir = d
    /\ \E d \in SubDirs :
          /\ should_skip_directory(wlk.kind[d])
          /\ wlk.files[d] = FileNames


\* The declaration pattern that acts on a line with these findings.
Declaration(found) ==
    IF "function" \in found THEN "function"
    ELSE IF "class" \in found THEN "class"
    ELSE IF "prototype" \in found THEN "prototype"
    ELSE "none"

\* The step reads a line while the scan is inside a block.
BlockStep ==
    /\ psr.pc = "loop"
    /\ psr.i < psr.total_lines
    /\ psr.inside_block
    /\ psr' # psr

\* The five result lists are left as they are.
ListsUnchanged ==
    /\ psr'.imports = psr.imports
    /\ psr'.requires = psr.requires
    /\ psr'.functions = psr.functions
    /\ psr'.classes = psr.classes
    /\ psr'.prototypes = psr.prototypes

\* C21 (SummarySpec): a script file whose parsing fails is only left out of
\* the summary list: the pass is never aborted by it, and the summary file
\* written holds the summary of every script file that can be parsed, in
\* the order of the walk, and of no other file.
ParsedFiles == {f \in TreeFiles : smy.kind[f] = "script"}

C21_FailedFileIsOnlyOmitted ==
    /\ smy.pc # "raised"
    /\ smy.pc = "dumped" =>
          /\ smy.js_summary_exists
          /\ {s.file : s \in Range(smy.js_summary)} = ParsedFiles
          /\ \A m, n \in DOMAIN smy.js_summary :
                m < n => smy.js_summary[m].file < smy.js_summary[n].file

\* C24 (MergeSpec): after any number of merges into the default
\* configuration the default configuration reads as it did at import, its
\* lists included, and two merges of the same override returned
\* configurations that read the same.
C24_MergeLeavesBaseUnchanged ==
    mrg.pc = "ready" =>
        /\ Contents_of(mrg.heap, DEFAULT_CONFIG)
              = Contents_of(<<DefaultPatterns>>, DEFAULT_CONFIG)
        /\ \A m, n \in DOMAIN mrg.merges :
              mrg.merges[m].override = mrg.merges[n].override
                  => mrg.merges[m].returned = mrg.merges[n].returned

\* C22 (ParserSpec): a declaration line holding '{' has its name recorded,
\* counts as one context line and opens a block at depth 1; each line read
\* in the block is counted as skipped and moves the depth by its braces; the
\* block ends with the line that brings the depth to 0 or below.
C22_BlockIsSkippedToItsClose ==
    [][/\ (ScanningStep /\ Declaration(matched') # "none" /\ "{" \in matched') =>
             /\ Grows(psr.functions,
                      IF Declaration(matched') = "function" THEN 1 ELSE 0)
             /\ Grows(psr.classes,
                      IF Declaration(matched') = "class" THEN 1 ELSE 0)
             /\ Grows(psr.prototypes,
                      IF Declaration(matched') = "prototype" THEN 1 ELSE 0)
             /\ psr'.context_lines = psr.context_lines + 1
             /\ psr'.skipped_lines = psr.skipped_lines
             /\ psr'.inside_block /\ psr'.brace_count = 1
             /\ psr'.i = psr.i + 1
       /\ BlockStep =>
             /\ psr'.skipped_lines = psr.skipped_lines + 1
             /\ psr'.context_lines = psr.context_lines
             /\ psr'.i = psr.i + 1
             /\ psr'.inside_block <=> psr'.brace_count > 0
             /\ "}" \notin matched' => psr'.brace_count >= psr.brace_count
             /\ ("{" \notin matched' /\ "}" \in matched') =>
                   psr'.brace_count < psr.brace_count]_vars


\* The patterns among the findings on a line.
Patterns(found) == found \ {"{", "}"}

\* C23 (ParserSpec): a line on which only the import (only the require)
\* pattern is found appends the captured string to imports (requires),
\* counts as one context line and leaves the scan in SCANNING mode; a line
\* on which no pattern is found, read in SCANNING mode, is counted neither
\* as context nor as skipped.
C23_ImportLineStaysScanning ==
    [][/\ (ScanningStep /\ Patterns(matched') \in {{"import"}, {"require"}}) =>
             /\ Grows(psr.imports, IF "import" \in matched' THEN 1 ELSE 0)
             /\ Grows(psr.requires, IF "require" \in matched' THEN 1 ELSE 0)
             /\ psr'.functions = psr.functions
             /\ psr'.classes = psr.classes
             /\ psr'.prototypes = psr.prototypes
             /\ psr'.context_lines = psr.context_lines + 1
             /\ psr'.skipped_lines = psr.skipped_lines
             /\ ~psr'.inside_block /\ psr'.brace_count = 0
             /\ psr'.pc = "loop" /\ psr'.i = psr.i + 1
       /\ (ScanningStep /\ Patterns(matched') = {}) =>
             /\ ListsUnchanged
             /\ psr'.context_lines = psr.context_lines
             /\ psr'.skipped_lines = psr.skipped_lines
             /\ ~psr'.inside_block
             /\ psr'.pc = "loop" /\ psr'.i = psr.i + 1]_vars

\* The summary of a two-line file: an import, then a line with no pattern.
C23_Witness ==
    /\ psr.pc = "done"
    /\ psr.imports = <<0>>
    /\ psr.requires = <<>> /\ psr.functions = <<>>
    /\ psr.classes = <<>> /\ psr.prototype_methods = <<>>
    /\ psr.stats = [total_lines |-> 2, context_lines |-> 1,
                    skipped_lines |-> 0, non_context_lines |-> 1]


\* C25 (ParserSpec): a line read while IN_BLOCK adds nothing to imports,
\* requires, functions, classes or prototype_methods and leaves
\* context_lines alone, whatever patterns are found on it; it adds 1 to
\* skipped_lines and the line after it is read next.
C25_BlockLineIsOnlySkipped ==
    [][BlockStep =>
          /\ ListsUnchanged
          /\ psr'.context_lines = psr.context_lines
          /\ psr'.skipped_lines = psr.skipped_lines + 1
          /\ psr'.i = psr.i + 1
          /\ psr'.pc = "loop"]_vars

\* The second line of the file was read inside the block the first line
\* opened, and patterns are found on it.
C25_Witness ==
    /\ psr.pc = "loop"
    /\ psr.i = 2
    /\ ~psr.found_open
    /\ psr.context_lines = 1 /\ psr.skipped_lines = 1
    /\ {"import", "function"} \subseteq matched
    /\ psr.imports = <<>>

\* C26 (ParserSpec): between two lines of a scan the depth is never
\* negative, at least 1 while IN_BLOCK and 0 while SCANNING.
C26_DepthMatchesMode ==
    psr.pc \in {"loop", "ahead"} =>
        /\ psr.brace_count >= 0
        /\ psr.inside_block => psr.brace_count >= 1
        /\ ~psr.inside_block => psr.brace_count = 0

\* A block is open inside a block.
C26_Witness ==
    /\ psr.pc = "loop"
    /\ psr.inside_block
    /\ psr.brace_count >= 2

\* C28 (ParserSpec): a declaration line holding '{' enters IN_BLOCK at depth
\* exactly 1 whatever braces it holds, also when it holds '}'; the line
\* after it is then read as a block line.
C28_BlockEnteredAtDepthOne ==
    [][/\ (ScanningStep /\ Declaration(matched') # "none" /\ "{" \in matched') =>
             /\ psr'.inside_block
             /\ psr'.brace_count = 1
             /\ psr'.pc = "loop"
             /\ psr'.i = psr.i + 1
       /\ (BlockStep /\ psr.brace_count = 1) =>
             /\ psr'.skipped_lines = psr.skipped_lines + 1
             /\ ListsUnchanged]_vars

\* The first line declared a function and holds '{' and '}': the scan is
\* IN_BLOCK at depth 1 with a line left to read.
C28_Witness ==
    /\ psr.pc = "loop"
    /\ psr.i = 1 /\ psr.i < psr.total_lines
    /\ {"function", "{", "}"} \subseteq matched
    /\ psr.inside_block
    /\ psr.brace_count = 1


\* C27 (ParserSpec): after a declaration line without '{' every line read
\* by the look-ahead is counted as skipped and nothing found on it is
\* recorded; the first such line holding '{' ends the look-ahead with the
\* scan IN_BLOCK at depth 1 and the line after it read next; when the file
\* ends first the scan is over, in SCANNING mode, with the counters as they
\* are.
C27_LookAheadSkipsToTheBrace ==
    [][/\ (ScanningStep /\ Declaration(matched') # "none" /\ "{" \notin matched') =>
             /\ psr'.pc = "ahead"
             /\ psr'.i = psr.i
             /\ ~psr'.found_open /\ ~psr'.inside_block
             /\ psr'.skipped_lines = psr.skipped_lines
       /\ (psr.pc = "ahead" /\ psr'.pc = "ahead" /\ psr' # psr) =>
             /\ ~psr.found_open
             /\ psr'.i = psr.i + 1
             /\ psr'.skipped_lines = psr.skipped_lines + 1
             /\ psr'.context_lines = psr.context_lines
             /\ ListsUnchanged
             /\ psr'.found_open <=> "{" \in matched'
             /\ psr'.inside_block <=> "{" \in matched'
             /\ psr'.brace_count = IF "{" \in matched' THEN 1 ELSE 0
       /\ (psr.pc = "ahead" /\ psr'.pc = "loop") =>
             /\ ListsUnchanged
             /\ psr'.context_lines = psr.context_lines
             /\ psr'.skipped_lines = psr.skipped_lines
             /\ psr'.inside_block = psr.found_open
             /\ psr'.brace_count = psr.brace_count
             /\ psr.found_open => psr'.i = psr.i + 1
             /\ ~psr.found_open => psr'.i >= psr.total_lines]_vars

\* The look-ahead skipped a line without '{' and then reached a line with
\* '{' on which a pattern is found.
C27_Witness ==
    /\ psr.pc = "ahead"
    /\ psr.found_open /\ psr.inside_block /\ psr.brace_count = 1
    /\ psr.skipped_lines = 2
    /\ psr.context_lines = 1
    /\ "function" \in matched


\* The lines counted so far as context or as skipped.
Counted(p) == p.context_lines + p.skipped_lines

\* C29 (ParserSpec): every line is counted once as context or as skipped,
\* except the lines read in SCANNING mode on which no pattern is found,
\* which are counted as neither; so in every summary non_context_lines is
\* the number of those lines, it is >= 0 and
\* context_lines + skipped_lines <= total_lines.
C29_NonContextCountsPlainLines ==
    /\ [][/\ ScanningStep =>
                Counted(psr') = Counted(psr)
                                  + (IF Patterns(matched') = {} THEN 0 ELSE 1)
          /\ BlockStep => Counted(psr') = Counted(psr) + 1
          /\ (psr.pc = "ahead" /\ psr'.pc = "ahead" /\ psr' # psr) =>
                Counted(psr') = Counted(psr) + 1
          /\ (psr.pc = "ahead" /\ psr'.pc = "loop") =>
                Counted(psr') = Counted(psr)]_vars
    /\ [](psr.pc = "done" =>
            /\ psr.stats.non_context_lines >= 0
            /\ psr.stats.context_lines + psr.stats.skipped_lines
                  <= psr.stats.total_lines)


\* The index of the first line the scan has not read yet.
Unread(p) == IF p.pc = "ahead" THEN p.i + 1 ELSE p.i

\* C30 (ParserLiveSpec): the scan terminates: no line is read twice (every
\* step that reads a line reads the first unread one), the index is larger
\* each time the outer loop is at its head, and the summary is eventually
\* returned, also when the file ends inside a block or inside a look-ahead.
C30_ScanTerminates ==
    /\ [][(psr.pc \in {"loop", "ahead"} /\ psr'.pc # "done" /\ psr' # psr) =>
             /\ Unread(psr') >= Unread(psr)
             /\ (ScanningStep \/ BlockStep \/ psr'.pc = "ahead") =>
                   Unread(psr') = Unread(psr) + 1
             /\ psr'.pc = "loop" => psr'.i > psr.i]_vars
    /\ <>(psr.pc = "done")

\* The file ended inside a block that was never closed.
C30_Witness ==
    /\ psr.pc = "loop"
    /\ psr.i >= psr.total_lines
    /\ psr.total_lines = MaxLiveLines
    /\ psr.inside_block

\* C31 (Spec): while the filter loop runs no read task exists and the cache
\* is the mapping that was loaded; once any read task exists the filter
\* loop has passed every candidate.  So no store of a read worker is seen
\* by a filter decision of the same run.
C31_FilterEndsBeforeReads ==
    /\ pc = "filter" =>
          /\ \A p \in AllPaths : task[p] = "none"
          /\ checksum_cache = log[run].loaded
    /\ (\E p \in AllPaths : task[p] # "none") =>
          /\ fi > Len(file_candidates)
          /\ pc # "filter"

\* A worker has stored a hash the loaded cache did not hold, after a filter
\* loop over at least one candidate that used the checksum rule.
C31_Witness ==
    /\ pc = "read"
    /\ config.use_checksum_cache
    /\ checksum_cache # log[run].loaded
    /\ \E p \in Range(file_candidates) : log[run].md5_calls[p] >= 1

\* C32 (Spec): a run loads the cache once, in the step that starts it,
\* before any filter decision, and only when caching is enabled; the cache
\* file is written only by the one save of a run with caching enabled, and
\* that save comes after the artifact was written and every submitted task
\* ended; a run that completes with caching disabled has loaded nothing,
\* saved nothing, computed no hash and left the cache file as it was.
Expected == IF config.use_checksum_cache THEN 1 ELSE 0

C33_EveryTaskIsProcessed ==
    (pc = "read") ~>
        (/\ pc = "done"
         /\ log[run].wrote
         /\ collected = log[run].submitted
         /\ \A p \in log[run].submitted : task[p] \in {"ok", "failed"})

\* The run is over, one task failed and the content another task read
\* after it is in the results.
C33_Witness ==
    /\ pc = "done"
    /\ \E p, q \in AllPaths :
          /\ task[p] = "failed"
          /\ task[q] = "ok"
          /\ <<q, future[q]>> \in Range(results)

\* C34 (SummarySpec): when gather_js_ts_summary returns, its list holds one
\* summary for every file with a script suffix, wherever the file lies
\* (below a directory the candidate collector prunes as well), and none for
\* a file without such a suffix.
SummariesOf(f) == {k \in DOMAIN smy.summaries : smy.summaries[k].file = f}

C34_OneSummaryPerScript ==
    smy.pc \in {"returned", "dumped"} =>
        \A f \in TreeFiles :
            Cardinality(SummariesOf(f)) =
                IF is_script(smy.kind[f]) THEN 1 ELSE 0

\* The list is returned for a tree with a script below a pruned directory,
\* a script elsewhere and a file that is no script.
C34_Witness ==
    /\ smy.pc = "returned"
    /\ \E f, g, h \in TreeFiles :
          /\ smy.kind[f] = "script" /\ smy.below_ignored[f]
          /\ smy.kind[g] = "script" /\ ~smy.below_ignored[g]
          /\ smy.kind[h] = "other"

\* C35 (ParserSpec): throughout the scan, and in the summary returned,
\* context_lines is the number of entries recorded in the five lists.
C35_ContextCountsEntries ==
    /\ psr.pc \in {"loop", "ahead"} =>
          psr.context_lines =
              Len(psr.imports) + Len(psr.requires) + Len(psr.functions)
                  + Len(psr.classes) + Len(psr.prototypes)
    /\ psr.pc = "done" =>
          psr.stats.context_lines =
              Len(psr.imports) + Len(psr.requires) + Len(psr.functions)
                  + Len(psr.classes) + Len(psr.prototype_methods)

\* The summary of a file in which one line gave three entries and another
\* line one.
C35_Witness ==
    /\ psr.pc = "done"
    /\ psr.stats.total_lines = 2
    /\ psr.stats.context_lines = 4
    /\ Len(psr.imports) = 2
    /\ Len(psr.requires) = 1
    /\ Len(psr.prototype_methods) = 1

\* C36 (ParserSpec): no line on which an entry was recorded is counted as
\* skipped, no line is counted as skipped twice, and so skipped_lines is at
\* most total_lines less the number of lines on which an entry was recorded.
RecordedAt ==
    Range(psr.imports) \cup Range(psr.requires) \cup Range(psr.functions)
        \cup Range(psr.classes)
        \cup Range(IF psr.pc = "done" THEN psr.prototype_methods
                   ELSE psr.prototypes)

SkippedCount ==
    IF psr.pc = "done" THEN psr.stats.skipped_lines ELSE psr.skipped_lines

TotalCount ==
    IF psr.pc = "done" THEN psr.stats.total_lines ELSE psr.total_lines

C36_SkippedAndContextAreDisjoint ==
    psr.pc # "idle" =>
        /\ psr.skipped_at \cap RecordedAt = {}
        /\ SkippedCount = Cardinality(psr.skipped_at)
        /\ psr.skipped_at \cup RecordedAt \subseteq 0..(TotalCount - 1)
        /\ SkippedCount <= TotalCount - Cardinality(RecordedAt)

\* A file of MaxLines lines: a declaration without '{', a line skipped by the
\* look-ahead, a line skipped inside the block.
C36_Witness ==
    /\ psr.pc = "done"
    /\ psr.stats.total_lines = MaxLines
    /\ psr.functions = <<0>>
    /\ psr.skipped_at = 1..(MaxLines - 1)

\* C37 (Spec): with caching enabled, once the pool has drained the cache
\* holds, for every path whose task computed a hash, that hash, whatever
\* the interleaving of the workers was.
Hashed == {p \in AllPaths : log[run].hashed[p] # None}

C37_NoStoreIsLost ==
    (config.use_checksum_cache /\ pc \in {"write", "save", "done"}) =>
        \A p \in Hashed : checksum_cache[p] = log[run].hashed[p]

\* The pool of two workers or more has drained after two tasks stored a
\* hash the loaded cache did not hold.
C37_Witness ==
    /\ pc = "write"
    /\ config.use_checksum_cache
    /\ config.threads >= 2
    /\ \E p, q \in Hashed :
          /\ p # q
          /\ log[run].loaded[p] # log[run].hashed[p]
          /\ log[run].loaded[q] # log[run].hashed[q]

\* C38 (Spec): no step of the filter loop changes the cache; throughout a
\* run the cache holds, for every path not submitted to the reader, the
\* entry that was loaded; when the run has saved the cache, the cache file
\* holds that entry for each of these paths, and an entry for every path
\* that had one when the cache was loaded.
NotSubmitted == AllPaths \ log[run].submitted

HadEntry == {p \in AllPaths : log[run].loaded[p] \notin {None, NonDict}}

C38_UnreadPathsKeepTheirEntry ==
    /\ [][pc = "filter" => checksum_cache' = checksum_cache]_vars
    /\ [](run > 0 =>
            /\ \A p \in NotSubmitted : checksum_cache[p] = log[run].loaded[p]
            /\ \A p \in HadEntry : checksum_cache[p] # None
            /\ (pc = "done" /\ log[run].saves = 1 /\ ~log[run].save_failed) =>
                  /\ \A p \in NotSubmitted :
                        cache_file.map[p] = log[run].loaded[p]
                  /\ \A p \in HadEntry : cache_file.map[p] # None)

\* A run has saved the cache after reading one file; a file excluded by a
\* rule and a file no longer in the tree had an entry when it was loaded.
C38_Witness ==
    /\ pc = "done"
    /\ log[run].saves = 1
    /\ ~log[run].save_failed
    /\ log[run].submitted \cap RegularPaths # {}
    /\ GonePath \in HadEntry
    /\ \E p \in RegularPaths \cap HadEntry \cap NotSubmitted : disk[p].too_big

\* C39 (Spec): with caching enabled, once the pool has drained, a path
\* whose cache entry differs from the one loaded has its content in the
\* results handed to the writer, and a path whose task failed has the
\* entry that was loaded.
ResultPaths == {results[k][1] : k \in DOMAIN results}

C39_EntryChangesOnlyWithContent ==
    (config.use_checksum_cache /\ pc \in {"write", "save", "done"}) =>
        \A p \in AllPaths :
            /\ checksum_cache[p] # log[run].loaded[p] => p \in ResultPaths
            /\ task[p] = "failed" => checksum_cache[p] = log[run].loaded[p]

=============================================================================
